---- MODULE Spec2Model ----
(***************************************************************************)
(* Model of the accounts service (api/v1/accounts.py): the "accounts"      *)
(* collection, the notification Redis database that holds the one-time     *)
(* codes, and the route handlers register, verify, login, update_profile,  *)
(* change_password, reset_password_request and reset_password, together    *)
(* with the request schemas of schemas/user.py they are called through.    *)
(***************************************************************************)
EXTENDS Integers, Sequences, FiniteSets, TLC

VARIABLES
    accounts,   \* db["accounts"]: the documents in insertion order; the index is the _id
    redis,      \* notif_redis (db=2): email -> stored code, or NoCode
    outbox,     \* payloads POSTed to the notification code sender
    tokens,     \* ids carried by the access tokens issued after a successful login
    pending,    \* register requests suspended at an await: slot -> request and lookup result
    served,     \* number of requests and notification-service steps so far
    response    \* the response of the last handler invocation

vars == <<accounts, redis, outbox, tokens, pending, served, response>>

----------------------------------------------------------------------------
(* Bounds of the model *)

MaxAccounts == 2
MaxPending == 2
MaxServed == 5

----------------------------------------------------------------------------
(* Input alphabets.  A password is the sequence of its character codes.    *)

Emails == {"a@x.com", "b@x.com"}
NoEmail == "-"

\* "Abcdef1!"
PwStrong == <<65, 98, 99, 100, 101, 102, 49, 33>>
\* "Abcdefg1"
PwNoSymbol == <<65, 98, 99, 100, 101, 102, 103, 49>>
\* "abcdefgh"
PwWeak == <<97, 98, 99, 100, 101, 102, 103, 104>>
NoPassword == <<>>
Passwords == {PwStrong, PwNoSymbol, PwWeak}

Codes == {"c1", "c2"}
NoCode == "-"

Unset == "<unset>"
FirstNames == {"Ann"}
LastNames == {"Lee"}

----------------------------------------------------------------------------
(* schemas/user.py *)

\* The fields each request model declares; pydantic drops every other key
\* of the request body, and reading an undeclared attribute raises.
UserSignUpFields == {"email", "password", "confirmed_password", "is_account_enable"}
UserProfileUpdateFields == {"email", "first_name", "last_name"}
ResetPasswordFields == {"new_password", "confirmed_new_password", "code"}
VerifyFields == {"code"}

IsUpper(c) == c \in 65..90
IsLower(c) == c \in 97..122
IsDigit(c) == c \in 48..57
\* The character class [#?!@$%^&*-_]: the listed characters, and the range
\* from '*' (42) to '_' (95) that "*-_" denotes inside a class.
InSpecialClass(c) == c \in {35, 63, 33, 64, 36, 37, 94, 38} \/ c \in 42..95

\* re.match(PASSWORD_PATTERN, value): "." does not match a newline (10) and
\* "$" also matches just before a trailing newline.
MatchesPattern(value) ==
    LET n == Len(value)
        body == IF n > 0 /\ value[n] = 10 THEN SubSeq(value, 1, n - 1) ELSE value
        chars == {body[i] : i \in 1..Len(body)}
    IN  /\ 10 \notin chars
        /\ Len(body) >= 8
        /\ \E c \in chars : IsUpper(c)
        /\ \E c \in chars : IsLower(c)
        /\ \E c \in chars : IsDigit(c)
        /\ \E c \in chars : InSpecialClass(c)

\* The verdicts of the pattern on the passwords of the input alphabet
AcceptedPasswords == {p \in Passwords : MatchesPattern(p)}

validate_password(value) ==
    IF value \in Passwords THEN value \in AcceptedPasswords ELSE MatchesPattern(value)

check_passwords_match(new_password, confirmed_new_password) ==
    new_password = confirmed_new_password

\* The outcome of building a PasswordMixins model: the field validator runs
\* first, the model validator after it; "ok" or the detail of the 400.
PasswordMixins(new_password, confirmed_new_password) ==
    IF ~validate_password(new_password) THEN "Passwords must be at least 8 characters in length"
    ELSE IF ~check_passwords_match(new_password, confirmed_new_password) THEN "Passwords don't match"
    ELSE "ok"

----------------------------------------------------------------------------
(* utils/user_utils.py: the credential hasher *)

\* The digest is opaque: all that can be done with it is to verify a plaintext.
get_password_hash(plain) == [digest_of |-> plain]

verify_password(plain, digest) == digest.digest_of = plain

----------------------------------------------------------------------------
(* The accounts collection *)

Ids == DOMAIN accounts

\* users.find_one({"email": email}): the first matching document, 0 for None
find_one(accs, email) ==
    IF \E i \in DOMAIN accs : accs[i].email = email
    THEN CHOOSE i \in DOMAIN accs :
            /\ accs[i].email = email
            /\ \A j \in DOMAIN accs : accs[j].email = email => i <= j
    ELSE 0

\* users.insert_one(doc): the collection has no unique index on email
insert_one(accs, doc) == Append(accs, doc)

----------------------------------------------------------------------------
(* Requests and responses *)

NoData == [id |-> 0, email |-> NoEmail]

Reply(op, status, detail, data) ==
    [op |-> op, status |-> status, detail |-> detail, data |-> data]

NoResponse == Reply("none", 0, "", NoData)

\* An exception that is no HTTPException: the server answers 500
InternalError(op, exc) == Reply(op, 500, exc, NoData)

IdlePending == [state |-> "idle", email |-> NoEmail, password |-> NoPassword,
                is_account_enable |-> FALSE, found |-> FALSE]

\* No register request is suspended: the handlers below run one at a time.
Quiet == \A s \in DOMAIN pending : pending[s].state = "idle"

\* One more request is served.
Serve == served < MaxServed /\ served' = served + 1

Init ==
    /\ accounts = <<>>
    /\ redis = [e \in Emails |-> NoCode]
    /\ outbox = {}
    /\ tokens = {}
    /\ pending = [s \in 1..MaxPending |-> IdlePending]
    /\ served = 0
    /\ response = NoResponse

----------------------------------------------------------------------------
(* services/notification_microservice.py *)

\* code_call(self, payload, request): the parameters a call has to bind
CodeCallParams == <<"payload", "request">>

\* A call binds when it passes one argument per parameter; otherwise the
\* call raises TypeError before any request is sent.
code_call_binds(args) == Len(args) = Len(CodeCallParams)

----------------------------------------------------------------------------
(* utils/token_utils.py *)

\* decode_token(token): the id of the account the token was issued for, 0
\* when the token does not resolve (the call raises).
decode_token(accs, rds, token) ==
    IF \E e \in Emails : rds[e] = token /\ find_one(accs, e) # 0
    THEN find_one(accs, CHOOSE e \in Emails : rds[e] = token /\ find_one(accs, e) # 0)
    ELSE 0

----------------------------------------------------------------------------
(* api/v1/accounts.py: register *)

NewDoc(email, password, is_account_enable) ==
    [email |-> email, password |-> get_password_hash(password),
     is_account_enable |-> is_account_enable,
     first_name |-> Unset, last_name |-> Unset]

\* register without the check of line 36: the document is inserted whatever
\* the lookup returned.
register_finish_unchecked(found, e, p, flag) ==
    /\ Len(accounts) < MaxAccounts
    /\ accounts' = insert_one(accounts, NewDoc(e, p, flag))
    /\ response' = Reply("register", 201, "", [id |-> Len(accounts) + 1, email |-> e])

\* Lines 36-45: the part of register after the lookup returned `found`.
register_finish(found, e, p, flag) ==
    IF found
    THEN /\ response' = Reply("register", 400, "Email already registered", NoData)
         /\ UNCHANGED accounts
    ELSE /\ Len(accounts) < MaxAccounts
         /\ accounts' = insert_one(accounts, NewDoc(e, p, flag))
         /\ response' = Reply("register", 201, "", [id |-> Len(accounts) + 1, email |-> e])

\* The whole handler, run without another request in between.
Register(e, p, cp, flag) ==
    /\ Quiet /\ Serve
    /\ register_finish(find_one(accounts, e) # 0, e, p, flag)
    /\ UNCHANGED <<redis, outbox, tokens, pending>>

\* Line 34: the lookup, after which the handler is suspended at the await.
RegisterFind(s, e, p, cp, flag) ==
    /\ pending[s].state = "idle"
    /\ pending' = [pending EXCEPT ![s] =
                      [state |-> "looked", email |-> e, password |-> p,
                       is_account_enable |-> flag,
                       found |-> find_one(accounts, e) # 0]]
    /\ Serve
    /\ UNCHANGED <<accounts, redis, outbox, tokens, response>>

\* Lines 36-45 of a suspended register.
RegisterInsert(s) ==
    /\ pending[s].state = "looked"
    /\ register_finish(pending[s].found, pending[s].email, pending[s].password,
                       pending[s].is_account_enable)
    /\ pending' = [pending EXCEPT ![s] = IdlePending]
    /\ UNCHANGED <<redis, outbox, tokens, served>>

----------------------------------------------------------------------------
(* api/v1/accounts.py: verify *)

\* verify reading the email of the body and without the comparison of line
\* 70: any code is accepted while some code is stored for the email.
verify_any_code(accs, rds, fields, email, code) ==
    LET i == find_one(accs, email) IN
    IF i = 0 THEN InternalError("verify", "TypeError")
    ELSE IF accs[i].is_account_enable
         THEN Reply("verify", 200, "your account is enabled", NoData)
    ELSE IF rds[email] = NoCode
         THEN Reply("verify", 400, "Invalid email or expired code", NoData)
    ELSE Reply("verify", 200, "your account was enabled successfully", NoData)

\* The response of verify for the body {email, code}, parsed by a model
\* that declares `fields`.
verify(accs, rds, fields, email, code) ==
    LET i == find_one(accs, email) IN
    IF "email" \notin fields THEN InternalError("verify", "AttributeError")
    ELSE IF i = 0 THEN InternalError("verify", "TypeError")
    ELSE IF accs[i].is_account_enable
         THEN Reply("verify", 200, "your account is enabled", NoData)
    ELSE IF rds[email] = NoCode
         THEN Reply("verify", 400, "Invalid email or expired code", NoData)
    ELSE IF rds[email] # code THEN Reply("verify", 400, "Invalid code", NoData)
    ELSE Reply("verify", 200, "your account was enabled successfully", NoData)

Verify(e, c) ==
    LET r == verify(accounts, redis, VerifyFields, e, c) IN
    /\ Quiet /\ Serve
    /\ response' = r
    /\ accounts' = IF r.detail = "your account was enabled successfully"
                   THEN [accounts EXCEPT ![find_one(accounts, e)].is_account_enable = TRUE]
                   ELSE accounts
    /\ UNCHANGED <<redis, outbox, tokens, pending>>

----------------------------------------------------------------------------
(* api/v1/accounts.py: login *)

\* login without the check of line 100: an Unverified account logs in.
login_unverified_allowed(accs, email, password) ==
    LET i == find_one(accs, email) IN
    IF i = 0 THEN Reply("login", 400, "Email is wrong", NoData)
    ELSE IF ~verify_password(password, accs[i].password)
         THEN Reply("login", 403, "Password is wrong", NoData)
    ELSE Reply("login", 200, "", [id |-> i, email |-> email])

login(accs, email, password) ==
    LET i == find_one(accs, email) IN
    IF i = 0 THEN Reply("login", 400, "Email is wrong", NoData)
    ELSE IF ~verify_password(password, accs[i].password)
         THEN Reply("login", 403, "Password is wrong", NoData)
    ELSE IF ~accs[i].is_account_enable
         THEN IF code_call_binds(<<[email |-> email, action |-> "verify account"]>>)
              THEN Reply("login", 455, "your account has not been verified yet", NoData)
              ELSE InternalError("login", "TypeError")
    ELSE Reply("login", 200, "", [id |-> i, email |-> email])

Login(e, p) ==
    LET r == login(accounts, e, p) IN
    /\ Quiet /\ Serve
    /\ response' = r
    /\ outbox' = IF r.status = 455
                 THEN outbox \cup {[email |-> e, action |-> "verify account"]}
                 ELSE outbox
    /\ tokens' = IF r.status = 200 THEN tokens \cup {r.data.id} ELSE tokens
    /\ UNCHANGED <<accounts, redis, pending>>

----------------------------------------------------------------------------
(* api/v1/accounts.py: update_profile *)

\* The update of a model that also declared is_account_enable with its
\* default: every profile update writes the flag back to False.
apply_set_with_flag(doc, email, first_name, last_name) ==
    [doc EXCEPT !.email = IF email = Unset THEN @ ELSE email,
                !.first_name = IF first_name = Unset THEN @ ELSE first_name,
                !.last_name = IF last_name = Unset THEN @ ELSE last_name,
                !.is_account_enable = FALSE]

\* The update without exclude_unset: the fields the request did not supply
\* are written too, as absent.
apply_set_all_fields(doc, email, first_name, last_name) ==
    [doc EXCEPT !.email = IF email = Unset THEN @ ELSE email,
                !.first_name = first_name,
                !.last_name = last_name]

\* {"$set": user_data.model_dump(exclude_unset=True)} applied to one document
apply_set(doc, email, first_name, last_name) ==
    [doc EXCEPT !.email = IF email = Unset THEN @ ELSE email,
                !.first_name = IF first_name = Unset THEN @ ELSE first_name,
                !.last_name = IF last_name = Unset THEN @ ELSE last_name]

\* An update document with an empty $set is refused by servers before
\* MongoDB 5.0 and is a no-op on later ones: `emptyOk` is the server's choice.
profile_update(id, email, first_name, last_name, emptyOk) ==
    IF email = Unset /\ first_name = Unset /\ last_name = Unset /\ ~emptyOk
    THEN /\ response' = InternalError("update_profile", "WriteError")
         /\ UNCHANGED accounts
    ELSE /\ accounts' = [accounts EXCEPT ![id] = apply_set(@, email, first_name, last_name)]
         /\ response' = Reply("update_profile", 200, "",
                              [id |-> id, email |-> accounts'[id].email])

UpdateProfile(id, email, first_name, last_name, emptyOk) ==
    /\ Quiet /\ Serve
    /\ id \in tokens
    /\ profile_update(id, email, first_name, last_name, emptyOk)
    /\ UNCHANGED <<redis, outbox, tokens, pending>>

----------------------------------------------------------------------------
(* api/v1/accounts.py: change_password *)

\* change_password without the check of line 165: the old password is not
\* compared with the stored hash.
change_password_old_unchecked(id, old_password, new_password, confirmed_new_password) ==
    LET checked == PasswordMixins(new_password, confirmed_new_password) IN
    IF checked # "ok"
    THEN /\ response' = Reply("change_password", 400, checked, NoData)
         /\ UNCHANGED accounts
    ELSE /\ accounts' = [accounts EXCEPT
                            ![id].password = get_password_hash(new_password)]
         /\ response' = Reply("change_password", 200, "password changed successfully", NoData)

change_password(id, old_password, new_password, confirmed_new_password) ==
    LET checked == PasswordMixins(new_password, confirmed_new_password) IN
    IF checked # "ok"
    THEN /\ response' = Reply("change_password", 400, checked, NoData)
         /\ UNCHANGED accounts
    ELSE IF ~verify_password(old_password, accounts[id].password)
    THEN /\ response' = Reply("change_password", 403, "Password is wrong", NoData)
         /\ UNCHANGED accounts
    ELSE /\ accounts' = [accounts EXCEPT
                            ![id].password = get_password_hash(new_password)]
         /\ response' = Reply("change_password", 200, "password changed successfully", NoData)

ChangePassword(id, old_password, new_password, confirmed_new_password) ==
    /\ Quiet /\ Serve
    /\ id \in tokens
    /\ change_password(id, old_password, new_password, confirmed_new_password)
    /\ UNCHANGED <<redis, outbox, tokens, pending>>

----------------------------------------------------------------------------
(* api/v1/accounts.py: reset_password_request *)

\* reset_password_request without the check of line 187: the code is sent
\* to the address of the request whether or not an account has it.
reset_password_request_unchecked(accs, email) ==
    Reply("reset_password_request", 200, "A code was sent to your email", NoData)

reset_password_request(accs, email) ==
    LET i == find_one(accs, email) IN
    IF i = 0 THEN Reply("reset_password_request", 404, "Email does not exist", NoData)
    ELSE IF code_call_binds(<<[email |-> accs[i].email, action |-> "reset password"]>>)
         THEN Reply("reset_password_request", 200, "A code was sent to your email", NoData)
         ELSE InternalError("reset_password_request", "TypeError")

ResetPasswordRequest(e) ==
    LET r == reset_password_request(accounts, e) IN
    /\ Quiet /\ Serve
    /\ response' = r
    /\ outbox' = IF r.status = 200
                 THEN outbox \cup {[email |-> e, action |-> "reset password"]}
                 ELSE outbox
    /\ UNCHANGED <<accounts, redis, tokens, pending>>

----------------------------------------------------------------------------
(* api/v1/accounts.py: reset_password *)

\* reset_password_info["token"] is read inside the try block: on a dumped
\* model without that key the KeyError is answered as "Invalid token".
reset_password(fields, code, new_password, confirmed_new_password) ==
    LET checked == PasswordMixins(new_password, confirmed_new_password)
        id == decode_token(accounts, redis, code)
    IN
    IF checked # "ok"
    THEN /\ response' = Reply("reset_password", 400, checked, NoData)
         /\ UNCHANGED accounts
    ELSE IF "token" \notin fields \/ id = 0
    THEN /\ response' = Reply("reset_password", 400, "Invalid token", NoData)
         /\ UNCHANGED accounts
    ELSE /\ accounts' = [accounts EXCEPT
                            ![id].password = get_password_hash(new_password)]
         /\ response' = Reply("reset_password", 200, "password changed successfully", NoData)

ResetPassword(code, new_password, confirmed_new_password) ==
    /\ Quiet /\ Serve
    /\ reset_password(ResetPasswordFields, code, new_password, confirmed_new_password)
    /\ UNCHANGED <<redis, outbox, tokens, pending>>

----------------------------------------------------------------------------
(* The notification service, which owns the codes of db 2 *)

\* The service stores a code for an email, replacing the one stored before.
NotifIssue(e, c) ==
    /\ Quiet /\ Serve
    /\ redis[e] # c
    /\ redis' = [redis EXCEPT ![e] = c]
    /\ response' = NoResponse
    /\ UNCHANGED <<accounts, outbox, tokens, pending>>

\* The time to live of a stored code runs out.
NotifExpire(e) ==
    /\ Quiet /\ Serve
    /\ redis[e] # NoCode
    /\ redis' = [redis EXCEPT ![e] = NoCode]
    /\ response' = NoResponse
    /\ UNCHANGED <<accounts, outbox, tokens, pending>>

----------------------------------------------------------------------------
(* Specifications *)

DoRegister == \E e \in Emails, p \in Passwords, cp \in Passwords, flag \in BOOLEAN :
                 Register(e, p, cp, flag)
DoVerify == \E e \in Emails, c \in Codes : Verify(e, c)
DoLogin == \E e \in Emails, p \in Passwords : Login(e, p)
DoUpdateProfile == \E id \in Ids, e \in Emails \cup {Unset}, fn \in FirstNames \cup {Unset},
                      ln \in LastNames \cup {Unset}, emptyOk \in BOOLEAN :
                      UpdateProfile(id, e, fn, ln, emptyOk)
DoChangePassword == \E id \in Ids, old \in Passwords, new \in Passwords, conf \in Passwords :
                       ChangePassword(id, old, new, conf)
DoResetPasswordRequest == \E e \in Emails : ResetPasswordRequest(e)
DoResetPassword == \E c \in Codes, new \in Passwords, conf \in Passwords :
                      ResetPassword(c, new, conf)
DoNotifIssue == \E e \in Emails, c \in Codes : NotifIssue(e, c)
DoNotifExpire == \E e \in Emails : NotifExpire(e)
DoRegisterFind == \E s \in DOMAIN pending, e \in Emails, p \in Passwords, cp \in Passwords,
                     flag \in BOOLEAN : RegisterFind(s, e, p, cp, flag)
DoRegisterInsert == \E s \in DOMAIN pending : RegisterInsert(s)

\* Every handler runs to its response before the next request is served.
Next ==
    \/ DoRegister
    \/ DoVerify
    \/ DoLogin
    \/ DoUpdateProfile
    \/ DoChangePassword
    \/ DoResetPasswordRequest
    \/ DoResetPassword
    \/ DoNotifIssue
    \/ DoNotifExpire

Spec == Init /\ [][Next]_vars

\* Register requests served concurrently: each is suspended at its awaits.
NextConc ==
    \/ DoRegisterFind
    \/ DoRegisterInsert

SpecConc == Init /\ [][NextConc]_vars

----------------------------------------------------------------------------
(* Vocabulary of the properties *)

Succeeded(r) == r.status \in {200, 201}

\* The two answers of verify that stand for InvalidOrExpiredCode
InvalidOrExpiredCode(r) ==
    r.status = 400 /\ r.detail \in {"Invalid email or expired code", "Invalid code"}

HasAccount(accs, e) == \E i \in DOMAIN accs : accs[i].email = e

\* Account i is created, or goes from Unverified to Verified, in this step.
BecomesEnabled(i) ==
    /\ i \in DOMAIN accounts'
    /\ accounts'[i].is_account_enable
    /\ (i \in DOMAIN accounts => ~accounts[i].is_account_enable)

----------------------------------------------------------------------------
(* C1..C10 *)

\* C1: a verify attempt that presents the code stored for its email either
\* is the one successful consumption, after which the code no longer
\* resolves, or fails with InvalidOrExpiredCode; so no code is consumed
\* successfully twice.
C1_SingleUseCode ==
    [][\A e \in Emails, c \in Codes :
          (Verify(e, c) /\ redis[e] = c /\ HasAccount(accounts, e)) =>
              \/ Succeeded(response') /\ redis'[e] # c
              \/ InvalidOrExpiredCode(response')]_vars

\* C2: an account is Unverified right after register, and an account only
\* becomes Verified in a step that is a successful verify for its email.
C2_EnabledOnlyByVerify ==
    [][\A i \in DOMAIN accounts' :
          BecomesEnabled(i) =>
              /\ i \in DOMAIN accounts
              /\ response'.op = "verify"
              /\ Succeeded(response')]_vars

\* C3: login answers 200 with {id, email} only if an account with that
\* email exists whose stored hash the password matches and which is
\* Verified, the id being that account's; otherwise it answers an error
\* and carries no identity data.
C3_LoginGate ==
    [][\A e \in Emails, p \in Passwords :
          (response'.op = "login" /\ Login(e, p)) =>
              LET Good(i) == /\ accounts[i].email = e
                             /\ verify_password(p, accounts[i].password)
                             /\ accounts[i].is_account_enable
              IN  IF Succeeded(response')
                  THEN /\ response'.data.id \in DOMAIN accounts
                       /\ Good(response'.data.id)
                       /\ response'.data.email = e
                  ELSE /\ response'.status >= 400
                       /\ response'.data = NoData]_vars

C3_Witness == response.op = "login" /\ response.status = 200 /\ response.data.id \in Ids

\* C4: register for an email that already has an account answers the
\* conflict error and leaves the collection as it was.
C4_DuplicateRegisterRejected ==
    [][\A e \in Emails :
          (/\ response'.op = "register"
           /\ HasAccount(accounts, e)
           /\ \E p \in Passwords, cp \in Passwords, flag \in BOOLEAN :
                 Register(e, p, cp, flag)) =>
              /\ response'.status = 400
              /\ response'.detail = "Email already registered"
              /\ accounts' = accounts]_vars

C4_Witness ==
    /\ response.op = "register"
    /\ response.status = 400
    /\ Len(accounts) >= 1

\* C5: a register that succeeds while other registers are in flight adds
\* an account only for an email that no account has yet.
C5_ConcurrentRegisterUnique ==
    [][Len(accounts') > Len(accounts) =>
          ~HasAccount(accounts, accounts'[Len(accounts')].email)]_vars

\* C6: no two accounts have the same email.
C6_EmailUnique ==
    \A i, j \in DOMAIN accounts : i # j => accounts[i].email # accounts[j].email

\* C7: a successful register has sent the "verify account" notification
\* for the email and leaves a code for it in the code store.
C7_RegisterIssuesCode ==
    [][\A e \in Emails, p \in Passwords, cp \in Passwords, flag \in BOOLEAN :
          (Register(e, p, cp, flag) /\ Succeeded(response')) =>
              /\ [email |-> e, action |-> "verify account"] \in outbox'
              /\ redis'[e] # NoCode]_vars

\* C8: reset_password with a code that resolves to the email of exactly one
\* account, and a new password that passes the validators, succeeds and
\* replaces the password of that account and of no other.
C8_ResetByCode ==
    [][\A c \in Codes, new \in Passwords, e \in Emails :
          (/\ ResetPassword(c, new, new)
           /\ PasswordMixins(new, new) = "ok"
           /\ redis[e] = c
           /\ \A f \in Emails : redis[f] = c => f = e
           /\ Cardinality({i \in DOMAIN accounts : accounts[i].email = e}) = 1) =>
              /\ Succeeded(response')
              /\ \A i \in DOMAIN accounts :
                    IF accounts[i].email = e
                    THEN verify_password(new, accounts'[i].password)
                    ELSE accounts'[i] = accounts[i]]_vars

\* C9: right after a successful change_password from old to a different
\* new password, login with the account's email accepts the new password
\* at the password check and answers "Password is wrong" to the old one.
C9_LoginUsesNewPassword ==
    [][\A id \in DOMAIN accounts, old \in Passwords, new \in Passwords :
          (ChangePassword(id, old, new, new) /\ Succeeded(response') /\ new # old) =>
              /\ login(accounts', accounts'[id].email, new).detail # "Password is wrong"
              /\ login(accounts', accounts'[id].email, old).detail = "Password is wrong"]_vars

\* C10: verify for the email of an already Verified account succeeds and
\* changes neither the accounts nor the code store.
C10_VerifyIdempotent ==
    [][\A e \in Emails, c \in Codes :
          (Verify(e, c) /\ find_one(accounts, e) # 0
                        /\ accounts[find_one(accounts, e)].is_account_enable) =>
              /\ Succeeded(response')
              /\ accounts' = accounts
              /\ redis' = redis]_vars

----------------------------------------------------------------------------
(* C11..C20 *)

\* C11: an account that is Verified is still there and still Verified after
\* every step, whichever operation the step is.
C11_VerifiedIsOneWay ==
    [][\A i \in DOMAIN accounts :
          accounts[i].is_account_enable =>
              /\ i \in DOMAIN accounts'
              /\ accounts'[i].is_account_enable]_vars

C11_Witness ==
    /\ response.op = "update_profile"
    /\ response.status = 200
    /\ response.data.id \in Ids
    /\ accounts[response.data.id].is_account_enable

\* The special characters of the policy: # ? ! @ $ % ^ & * - _
PolicySpecials == {35, 63, 33, 64, 36, 37, 94, 38, 42, 45, 95}

\* The password policy as stated: length at least 8, an uppercase letter, a
\* lowercase letter, a digit and one of the special characters.
PolicyAccepts(p) ==
    /\ Len(p) >= 8
    /\ \E i \in 1..Len(p) : p[i] \in 65..90
    /\ \E i \in 1..Len(p) : p[i] \in 97..122
    /\ \E i \in 1..Len(p) : p[i] \in 48..57
    /\ \E i \in 1..Len(p) : p[i] \in PolicySpecials

PolicyRejected(r) ==
    r.status = 400 /\ r.detail = "Passwords must be at least 8 characters in length"

\* C12: a request that carries a new password is turned down by the
\* password validator exactly when the password does not satisfy the policy.
C12_ValidatorIsPolicy ==
    [][/\ \A c \in Codes, new \in Passwords, conf \in Passwords :
             (response'.op = "reset_password" /\ ResetPassword(c, new, conf)) =>
                 (PolicyRejected(response') <=> ~PolicyAccepts(new))
       /\ \A id \in DOMAIN accounts, old \in Passwords, new \in Passwords,
             conf \in Passwords :
             (response'.op = "change_password" /\ ChangePassword(id, old, new, conf)) =>
                 (PolicyRejected(response') <=> ~PolicyAccepts(new))]_vars

\* C13: login with the right password for an account that is not Verified
\* answers the "not verified" signal (status 455).
C13_NotVerifiedSignal ==
    [][\A e \in Emails, p \in Passwords :
          (/\ response'.op = "login"
           /\ Login(e, p)
           /\ find_one(accounts, e) # 0
           /\ verify_password(p, accounts[find_one(accounts, e)].password)
           /\ ~accounts[find_one(accounts, e)].is_account_enable) =>
              response'.status = 455]_vars

\* C14: reset_password_request calls the notification gateway only for
\* the email of an existing account; for an unknown email it answers 404
\* "Email does not exist" and changes no account, no code and sends nothing.
C14_ResetRequestNeedsAccount ==
    [][\A e \in Emails :
          (response'.op = "reset_password_request" /\ ResetPasswordRequest(e)) =>
              /\ outbox' # outbox => HasAccount(accounts, e)
              /\ ~HasAccount(accounts, e) =>
                    /\ response'.status = 404
                    /\ response'.detail = "Email does not exist"
                    /\ accounts' = accounts
                    /\ redis' = redis
                    /\ outbox' = outbox]_vars

C14_Witness ==
    /\ response.op = "reset_password_request"
    /\ response.status = 404
    /\ Len(accounts) >= 1

\* C15: a change_password or reset_password request whose new password
\* does not satisfy the policy, or differs from its confirmation, is
\* turned down and leaves the accounts and the code store as they were.
C15_RejectedBeforeStores ==
    [][/\ \A id \in DOMAIN accounts, old \in Passwords, new \in Passwords,
             conf \in Passwords :
             (/\ response'.op = "change_password"
              /\ ~PolicyAccepts(new) \/ new # conf
              /\ ChangePassword(id, old, new, conf)) =>
                 /\ ~Succeeded(response')
                 /\ accounts' = accounts
                 /\ redis' = redis
       /\ \A c \in Codes, new \in Passwords, conf \in Passwords :
             (/\ response'.op = "reset_password"
              /\ ~PolicyAccepts(new) \/ new # conf
              /\ ResetPassword(c, new, conf)) =>
                 /\ ~Succeeded(response')
                 /\ accounts' = accounts
                 /\ redis' = redis]_vars

\* C16: verify for the email of an account, presenting a code other than
\* the one stored for that email (none stored, expired, or a different
\* one), fails with InvalidOrExpiredCode and changes no enabled flag.
C16_UnresolvedCodeRejected ==
    [][\A e \in Emails, c \in Codes :
          (/\ response'.op = "verify"
           /\ HasAccount(accounts, e)
           /\ redis[e] # c
           /\ Verify(e, c)) =>
              /\ InvalidOrExpiredCode(response')
              /\ \A i \in DOMAIN accounts :
                    accounts'[i].is_account_enable = accounts[i].is_account_enable]_vars

WrongOldPassword(r) == r.status = 403 /\ r.detail = "Password is wrong"

\* C18, as stated: change_password with an old password that does not
\* match the stored hash fails with WrongOldPassword and leaves the
\* accounts, and with them the stored hash, unchanged.
C18_WrongOldPasswordAlways ==
    [][\A id \in DOMAIN accounts, old \in Passwords :
          (/\ response'.op = "change_password"
           /\ ~verify_password(old, accounts[id].password)
           /\ \E new \in Passwords, conf \in Passwords :
                 ChangePassword(id, old, new, conf)) =>
              /\ WrongOldPassword(response')
              /\ accounts' = accounts]_vars

\* C18, amended: with an old password that does not match the stored hash,
\* change_password leaves the accounts unchanged, so that the stored hash
\* still verifies the previous password; it fails with WrongOldPassword
\* when the new password passed the validators, and with the validators'
\* 400 when it did not.
C18_WrongOldPassword ==
    [][\A id \in DOMAIN accounts :
          (response'.op = "change_password" /\ id \in tokens) =>
              \A old \in Passwords :
                  ~verify_password(old, accounts[id].password) =>
                      \A new \in Passwords, conf \in Passwords :
                          ChangePassword(id, old, new, conf) =>
                              /\ accounts' = accounts
                              /\ \A p \in Passwords :
                                    verify_password(p, accounts[id].password) =>
                                        verify_password(p, accounts'[id].password)
                              /\ IF PasswordMixins(new, conf) = "ok"
                                 THEN WrongOldPassword(response')
                                 ELSE /\ response'.status = 400
                                      /\ response'.detail = PasswordMixins(new, conf)]_vars

C18_Witness ==
    /\ response.op = "change_password"
    /\ WrongOldPassword(response)

\* C19: update_profile gives the supplied fields their new values on the
\* caller's account and changes nothing else: the fields not supplied, the
\* password hash and the enabled flag of that account, the number of
\* accounts, and every other account stay as they were.
C19_UpdateProfileFrame ==
    [][\A id \in DOMAIN accounts :
          (response'.op = "update_profile" /\ id \in tokens) =>
              \A e \in Emails \cup {Unset}, fn \in FirstNames \cup {Unset},
                 ln \in LastNames \cup {Unset}, emptyOk \in BOOLEAN :
                  UpdateProfile(id, e, fn, ln, emptyOk) =>
                      /\ DOMAIN accounts' = DOMAIN accounts
                      /\ \A j \in DOMAIN accounts : j # id => accounts'[j] = accounts[j]
                      /\ accounts'[id].password = accounts[id].password
                      /\ accounts'[id].is_account_enable = accounts[id].is_account_enable
                      /\ accounts'[id].email = (IF e = Unset THEN accounts[id].email ELSE e)
                      /\ accounts'[id].first_name =
                            (IF fn = Unset THEN accounts[id].first_name ELSE fn)
                      /\ accounts'[id].last_name =
                            (IF ln = Unset THEN accounts[id].last_name ELSE ln)]_vars

\* A profile update has been applied to an account that keeps a field set
\* by an earlier update and has another field never supplied.
C19_Witness ==
    /\ response.op = "update_profile"
    /\ response.status = 200
    /\ response.data.id \in Ids
    /\ accounts[response.data.id].first_name \in FirstNames
    /\ accounts[response.data.id].last_name = Unset

\* C20: every stored password satisfies the password policy and was
\* confirmed: each account's stored hash is of a password the policy
\* accepts, and every step of register, change_password or reset_password
\* that stores a password carries a confirmation field equal to it.
C20_StoredPasswordsValidated ==
    [][/\ \A i \in DOMAIN accounts' : PolicyAccepts(accounts'[i].password.digest_of)
       /\ \A e \in Emails, p \in Passwords, cp \in Passwords :
             (/\ response'.op = "register"
              /\ Len(accounts') > Len(accounts)
              /\ \E flag \in BOOLEAN : Register(e, p, cp, flag)) => p = cp
       /\ \A id \in DOMAIN accounts, new \in Passwords, conf \in Passwords :
             (/\ response'.op = "change_password"
              /\ accounts' # accounts
              /\ \E old \in Passwords : ChangePassword(id, old, new, conf)) => new = conf
       /\ \A new \in Passwords, conf \in Passwords :
             (/\ response'.op = "reset_password"
              /\ accounts' # accounts
              /\ \E c \in Codes : ResetPassword(c, new, conf)) => new = conf]_vars

====
